---- MODULE Spec2Model ----
(***************************************************************************)
(* Model of the zShield Pro GitHub action (src/src/action.js): the cached   *)
(* login credential, the team and group name resolution and the protection *)
(* request builder.                                                         *)
(*                                                                          *)
(* Three specifications share the variables:                                *)
(*   SpecAuth     loginHttpRequest called again and again while the clock   *)
(*                advances and the login endpoint answers anything          *)
(*   SpecResolve  resolveTeamId followed by resolveGroupId over every       *)
(*                listing the two endpoints can return; the credential      *)
(*                each listing request asks for first is the subject of     *)
(*                SpecAuth, and a failed login ends the step like a         *)
(*                rejected listing request                                  *)
(*   SpecBuild    buildProtectionRequest over every combination of the      *)
(*                inline and file policy inputs                             *)
(***************************************************************************)
EXTENDS Integers, Sequences, FiniteSets

VARIABLES
  pc,                    \* position of the single thread of control
  err,                   \* the Error thrown, [text, names]; text "" when none
  now,                   \* Date.now(), in milliseconds
  loginResponse,         \* the module-level cached credential (action.js:48)
  authPre,               \* loginResponse when loginHttpRequest was entered
  authNow,               \* Date.now() when loginHttpRequest was entered
  authLogins,            \* login POSTs issued by the current loginHttpRequest call
  authRet,               \* what the current loginHttpRequest call returned
  teamName,              \* input team_name
  groupName,             \* input group_name
  teams,                 \* the listing getTeams() returned
  groups,                \* the listing getGroups() returned
  teamId,                \* result of resolveTeamId (0 before)
  groupId,               \* result of resolveGroupId (0 before)
  protectionJsonInline,  \* input app_protection_request
  protectionJsonFile,    \* input app_protection_request_file and the file behind it
  req,                   \* the document buildProtectionRequest returned
  step,                  \* the call of run() that is under way
  timeoutMinutes,        \* input timeout_minutes
  pollIntervalSeconds,   \* input poll_interval_seconds
  submitAt,              \* Date.now() when submitProtect was called
  submittedAt,           \* Date.now() when submitProtect returned
  start,                 \* the local start of pollUntilProtected
  buildId,               \* submitResp.buildId
  build,                 \* the latest poll response
  link,                  \* the descriptor getProtectedLink returned
  signedUrl,             \* the url the download request was sent to
  outFile,               \* the bytes written to the output path
  outputs,               \* the outputs set with core.setOutput
  calls,                 \* every call made so far, in order
  sent,                  \* the bearer token of the request in flight
  sleeps,                \* the durations sleep() was called with
  pollLog,               \* the poll responses received so far
  failedCall,            \* the request that was rejected, "" when none
  outputFileInput,       \* input output_file, "" when not given
  inputFile,             \* the one file app_file matched, [base, ext]
  resp                   \* the response to the download request

vars == <<pc, err, now, loginResponse, authPre, authNow, authLogins, authRet,
          teamName, groupName, teams, groups, teamId, groupId,
          protectionJsonInline, protectionJsonFile, req,
          step, timeoutMinutes, pollIntervalSeconds, submitAt, submittedAt, start,
          buildId, build, link, signedUrl, outFile, outputs, calls, sent, sleeps,
          pollLog, failedCall, outputFileInput, inputFile, resp>>

authVars    == <<now, loginResponse, authPre, authNow, authLogins, authRet>>
resolveVars == <<teamName, groupName, teams, groups, teamId, groupId>>
buildVars   == <<protectionJsonInline, protectionJsonFile, req>>
inputVars   == <<teamName, groupName, protectionJsonInline, protectionJsonFile,
                 timeoutMinutes, pollIntervalSeconds>>
jobVars     == <<submitAt, submittedAt, start, buildId, build, link, signedUrl,
                 outFile,
                 outputs, sleeps, pollLog, outputFileInput, inputFile, resp>>
runVars     == <<step, timeoutMinutes, pollIntervalSeconds, submitAt,
                 submittedAt, start,
                 buildId, build, link, signedUrl, outFile, outputs,
                 calls, sent, sleeps, pollLog, failedCall,
                 outputFileInput, inputFile, resp>>
downloadVars == <<outputFileInput, inputFile, resp>>

NoBuild == [state |-> "", protectedUrl |-> ""]
NoLink  == [name |-> "", url |-> ""]
NoOutputs == [build_id |-> "", protected_file |-> ""]
NoApp   == [base |-> "", ext |-> ""]
NoResp  == [status |-> 0, ct |-> <<>>, data |-> <<>>]

\* run() has not been entered: the state of its locals and of its record
RunIdle ==
  /\ step = ""
  /\ timeoutMinutes = 0 /\ pollIntervalSeconds = 0
  /\ submitAt = 0 /\ submittedAt = 0 /\ start = 0
  /\ buildId = ""
  /\ build = NoBuild
  /\ link = NoLink
  /\ signedUrl = ""
  /\ outFile = <<>>
  /\ outputs = NoOutputs
  /\ calls = <<>>
  /\ sent = <<>>
  /\ sleeps = <<>>
  /\ pollLog = <<>>
  /\ failedCall = ""
  /\ outputFileInput = ""
  /\ inputFile = NoApp
  /\ resp = NoResp

(***************************************************************************)
(* Bounds of the model                                                      *)
(***************************************************************************)
MaxNow    == 6      \* the clock stops after MaxNow half seconds
MaxExp    == 3      \* largest exp claim of a token (s)
MaxTeams  == 2      \* longest team listing; team ids are 1..MaxTeams
MaxGroups == 3      \* longest group listing; group ids are 1..MaxGroups

NoError == [text |-> "", names |-> <<>>]
Error(text, names) == [text |-> text, names |-> names]

(***************************************************************************)
(* Credential cache                                                         *)
(*                                                                          *)
(* A credential is the login response body: absent (undefined/null) or an   *)
(* object whose accessToken is a token, <<>> standing for a missing or      *)
(* empty field.  A token is the sequence of its dot-separated segments; a   *)
(* segment is described by what its base64url text decodes to.              *)
(***************************************************************************)
Undefined == [has |-> FALSE, accessToken |-> <<>>]
Cred(t)   == [has |-> TRUE, accessToken |-> t]

Claims(e)  == [json |-> "object", hasExp |-> TRUE, exp |-> e]
NoExp      == [json |-> "object", hasExp |-> FALSE, exp |-> 0]
NullJson   == [json |-> "null", hasExp |-> FALSE, exp |-> 0]
NotJson    == [json |-> "invalid", hasExp |-> FALSE, exp |-> 0]

Payloads == {Claims(e) : e \in 0..MaxExp} \cup {NoExp, NullJson, NotJson}

\* tokens of one, two and three segments
TokenSet ==
  {<<Claims(MaxExp)>>}
    \cup {<<NotJson, p>> : p \in Payloads}
    \cup {<<NotJson, p, NotJson>> : p \in Payloads}

\* bodies the login endpoint can answer with
LoginResponses == {Undefined, Cred(<<>>)} \cup {Cred(t) : t \in TokenSet}

MsPerSec == 1000

\* JSON.parse of the decoded segment: throws on text that is not JSON
base64UrlDecodeToJson(seg) ==
  IF seg.json = "invalid"
    THEN [threw |-> TRUE, value |-> seg]
    ELSE [threw |-> FALSE, value |-> seg]

\* claims without exp count as never expiring
ExpiryAhead_NoExpValid(claims, t) ==
  /\ claims.json = "object"
  /\ ~claims.hasExp \/ t < claims.exp * MsPerSec

\* claims.exp * 1000 compared with Date.now(): reading exp of null throws,
\* a missing exp gives NaN and the comparison is false
ExpiryAhead(claims, t) ==
  /\ claims.json = "object"
  /\ claims.hasExp
  /\ t < claims.exp * MsPerSec

cachedTokenValid_NoScale(lr, t) ==
  /\ lr.has /\ lr.accessToken # <<>>
  /\ Len(lr.accessToken) >= 2
  /\ ~base64UrlDecodeToJson(lr.accessToken[2]).threw
  /\ LET claims == base64UrlDecodeToJson(lr.accessToken[2]).value
     IN claims.json = "object" /\ claims.hasExp /\ t < claims.exp

cachedTokenValid_Inclusive(lr, t) ==
  /\ lr.has /\ lr.accessToken # <<>>
  /\ Len(lr.accessToken) >= 2
  /\ ~base64UrlDecodeToJson(lr.accessToken[2]).threw
  /\ LET claims == base64UrlDecodeToJson(lr.accessToken[2]).value
     IN claims.json = "object" /\ claims.hasExp /\ t <= claims.exp * MsPerSec

\* the guarded block of loginHttpRequest: TRUE when it returns the cache
cachedTokenValid(lr, t) ==
  /\ lr.has /\ lr.accessToken # <<>>
  /\ Len(lr.accessToken) >= 2
  /\ ~base64UrlDecodeToJson(lr.accessToken[2]).threw
  /\ ExpiryAhead(base64UrlDecodeToJson(lr.accessToken[2]).value, t)

\* loginHttpRequest up to its await: return the cache or issue the login POST
LoginHttpRequest ==
  /\ pc = "call"
  /\ authPre' = loginResponse
  /\ authNow' = now
  /\ IF cachedTokenValid(loginResponse, now)
       THEN /\ pc' = "returned"
            /\ authRet' = loginResponse
            /\ authLogins' = 0
       ELSE /\ pc' = "login"
            /\ authRet' = Undefined
            /\ authLogins' = 1
  /\ UNCHANGED <<err, now, loginResponse, resolveVars, buildVars, runVars>>

\* the login POST resolves: the body is stored, then checked
LoginResponse ==
  /\ pc = "login"
  /\ \E data \in LoginResponses :
       /\ loginResponse' = data
       /\ IF ~data.has \/ data.accessToken = <<>>
            THEN /\ pc' = "thrown"
                 /\ err' = Error("Login response missing accessToken", <<>>)
                 /\ UNCHANGED authRet
            ELSE /\ pc' = "returned"
                 /\ authRet' = data
                 /\ UNCHANGED err
  /\ UNCHANGED <<now, authPre, authNow, authLogins, resolveVars, buildVars, runVars>>

\* the login POST rejects (transport error or non-2xx status)
LoginRejected ==
  /\ pc = "login"
  /\ pc' = "thrown"
  /\ err' = Error("login request failed", <<>>)
  /\ UNCHANGED <<authVars, resolveVars, buildVars, runVars>>

\* the caller's own request completes and the next caller asks for a credential
NextCaller ==
  /\ pc = "returned"
  /\ pc' = "call"
  /\ UNCHANGED <<err, authVars, resolveVars, buildVars, runVars>>

\* time passes while a request is in flight
Tick ==
  /\ pc \in {"login", "returned"}
  /\ \E d \in {500, 1000} :
       /\ now + d <= MaxNow * 500
       /\ now' = now + d
  /\ UNCHANGED <<pc, err, loginResponse, authPre, authNow, authLogins, authRet,
                 resolveVars, buildVars, runVars>>

InitAuth ==
  /\ pc = "call"
  /\ err = NoError
  /\ now = 0
  /\ loginResponse = Undefined
  /\ authPre = Undefined
  /\ authNow = 0
  /\ authLogins = 0
  /\ authRet = Undefined
  /\ teamName = "" /\ groupName = ""
  /\ teams = <<>> /\ groups = <<>>
  /\ teamId = 0 /\ groupId = 0
  /\ protectionJsonInline = <<>> /\ protectionJsonFile = <<>>
  /\ req = <<>>
  /\ RunIdle

NextAuth ==
  \/ LoginHttpRequest
  \/ LoginResponse
  \/ LoginRejected
  \/ NextCaller
  \/ Tick

SpecAuth == InitAuth /\ [][NextAuth]_vars

(***************************************************************************)
(* Name resolver                                                            *)
(*                                                                          *)
(* A team is [id, name]; a group is [id, name, team] where team is <<>> for *)
(* a global group (no team object) and <<t>> for a group scoped to team t.  *)
(***************************************************************************)
TeamNames  == {"Apps", "apps", "Ops"}
GroupNames == {"G", "H"}
TeamIds    == 1..MaxTeams
GroupIds   == 1..MaxGroups

\* team listings: up to MaxTeams entries with distinct ids in any order
TeamListings ==
  UNION {
    {[i \in 1..n |-> [id |-> ids[i], name |-> names[i]]] :
        ids \in {f \in [1..n -> TeamIds] :
                   \A i, j \in 1..n : i # j => f[i] # f[j]},
        names \in [1..n -> TeamNames]} :
    n \in 0..MaxTeams}

\* group listings: up to MaxGroups entries, the i-th with id i
GroupListings ==
  UNION {
    {[i \in 1..n |-> [id |-> i, name |-> names[i], team |-> scopes[i]]] :
        names \in [1..n -> GroupNames],
        scopes \in [1..n -> {<<>>} \cup {<<t>> : t \in TeamIds}]} :
    n \in 0..MaxGroups}

Names(listing) == [i \in 1..Len(listing) |-> listing[i].name]

Found(id)  == [ok |-> TRUE, id |-> id, err |-> NoError]
Thrown(e)  == [ok |-> FALSE, id |-> 0, err |-> e]

\* a name comparison that ignores case
Lower(n) == IF n = "Apps" THEN "apps" ELSE n

resolveTeamId_IgnoreCase(listing, teamNameArg) ==
  LET hits == {i \in 1..Len(listing) : Lower(listing[i].name) = Lower(teamNameArg)}
  IN IF hits = {}
       THEN Thrown(Error("Team not found. Available teams", Names(listing)))
       ELSE Found(listing[CHOOSE i \in hits : \A j \in hits : i <= j].id)

\* resolveTeamId after getTeams() returned the listing
resolveTeamId(listing, teamNameArg) ==
  LET hits == {i \in 1..Len(listing) : listing[i].name = teamNameArg}
  IN IF hits = {}
       THEN Thrown(Error("Team not found. Available teams", Names(listing)))
       ELSE Found(listing[CHOOSE i \in hits : \A j \in hits : i <= j].id)

\* groups.filter(g => g.name === groupNameArg)
nameMatches(listing, groupNameArg) ==
  LET Test(g) == g.name = groupNameArg IN SelectSeq(listing, Test)

teamScopedMatches_AnyTeam(matches, tid) ==
  LET Test(g) == g.team # <<>> IN SelectSeq(matches, Test)

\* matches.filter(g => g.team && g.team.id === teamId)
teamScopedMatches(matches, tid) ==
  LET Test(g) == g.team # <<>> /\ g.team[1] = tid IN SelectSeq(matches, Test)

\* matches.filter(g => !g.team)
globalMatches(matches) ==
  LET Test(g) == g.team = <<>> IN SelectSeq(matches, Test)

\* the first name match in listing order decides
resolveGroupId_ByFind(listing, groupNameArg, tid) ==
  LET matches == nameMatches(listing, groupNameArg)
  IN IF Len(matches) = 0
       THEN Thrown(Error("Group not found. Visible groups", Names(listing)))
     ELSE IF matches[1].team = <<>> \/ matches[1].team[1] = tid
       THEN Found(matches[1].id)
     ELSE Thrown(Error("Group exists but is not accessible for team", <<>>))

\* global groups looked at before team-scoped ones
resolveGroupId_GlobalFirst(listing, groupNameArg, tid) ==
  LET matches    == nameMatches(listing, groupNameArg)
      teamScoped == teamScopedMatches(matches, tid)
      global     == globalMatches(matches)
  IN IF Len(matches) = 0
       THEN Thrown(Error("Group not found. Visible groups", Names(listing)))
     ELSE IF Len(global) = 1 THEN Found(global[1].id)
     ELSE IF Len(global) > 1
       THEN Thrown(Error("Multiple global groups found", <<>>))
     ELSE IF Len(teamScoped) = 1 THEN Found(teamScoped[1].id)
     ELSE IF Len(teamScoped) > 1
       THEN Thrown(Error("Group is ambiguous within team", <<>>))
     ELSE Thrown(Error("Group exists but is not accessible for team", <<>>))

\* the first candidate of a tier taken when the tier has several
resolveGroupId_FirstMatch(listing, groupNameArg, tid) ==
  LET matches    == nameMatches(listing, groupNameArg)
      teamScoped == teamScopedMatches(matches, tid)
      global     == globalMatches(matches)
  IN IF Len(matches) = 0
       THEN Thrown(Error("Group not found. Visible groups", Names(listing)))
     ELSE IF Len(teamScoped) >= 1 THEN Found(teamScoped[1].id)
     ELSE IF Len(global) >= 1 THEN Found(global[1].id)
     ELSE Thrown(Error("Group exists but is not accessible for team", <<>>))

\* the first name match taken when neither tier yields a group
resolveGroupId_FallBack(listing, groupNameArg, tid) ==
  LET matches    == nameMatches(listing, groupNameArg)
      teamScoped == teamScopedMatches(matches, tid)
      global     == globalMatches(matches)
  IN IF Len(matches) = 0
       THEN Thrown(Error("Group not found. Visible groups", Names(listing)))
     ELSE IF Len(teamScoped) = 1 THEN Found(teamScoped[1].id)
     ELSE IF Len(teamScoped) > 1
       THEN Thrown(Error("Group is ambiguous within team", <<>>))
     ELSE IF Len(global) = 1 THEN Found(global[1].id)
     ELSE IF Len(global) > 1
       THEN Thrown(Error("Multiple global groups found", <<>>))
     ELSE Found(matches[1].id)

\* resolveGroupId after getGroups() returned the listing
resolveGroupId(listing, groupNameArg, tid) ==
  LET matches    == nameMatches(listing, groupNameArg)
      teamScoped == teamScopedMatches(matches, tid)
      global     == globalMatches(matches)
  IN IF Len(matches) = 0
       THEN Thrown(Error("Group not found. Visible groups", Names(listing)))
     ELSE IF Len(teamScoped) = 1 THEN Found(teamScoped[1].id)
     ELSE IF Len(teamScoped) > 1
       THEN Thrown(Error("Group is ambiguous within team", <<>>))
     ELSE IF Len(global) = 1 THEN Found(global[1].id)
     ELSE IF Len(global) > 1
       THEN Thrown(Error("Multiple global groups found", <<>>))
     ELSE Thrown(Error("Group exists but is not accessible for team", <<>>))

\* run() calls resolveTeamId(teamName): the team listing arrives and is searched
ResolveTeamId ==
  /\ pc = "resolveTeamId"
  /\ \E listing \in TeamListings :
       LET r == resolveTeamId(listing, teamName)
       IN /\ teams' = listing
          /\ IF r.ok
               THEN pc' = "resolveGroupId" /\ teamId' = r.id /\ UNCHANGED err
               ELSE pc' = "failed" /\ err' = r.err /\ UNCHANGED teamId
  /\ UNCHANGED <<authVars, teamName, groupName, groups, groupId, buildVars, runVars>>

\* the team listing request rejects
GetTeamsRejected ==
  /\ pc = "resolveTeamId"
  /\ pc' = "failed"
  /\ err' = Error("teams request failed", <<>>)
  /\ UNCHANGED <<authVars, resolveVars, buildVars, runVars>>

\* run() calls resolveGroupId(groupName, teamId): the group listing arrives and
\* is searched; the team listing, a local of resolveTeamId, is gone
ResolveGroupId ==
  /\ pc = "resolveGroupId"
  /\ \E listing \in GroupListings :
       LET r == resolveGroupId(listing, groupName, teamId)
       IN /\ groups' = listing
          /\ IF r.ok
               THEN pc' = "resolved" /\ groupId' = r.id /\ UNCHANGED err
               ELSE pc' = "failed" /\ err' = r.err /\ UNCHANGED groupId
  /\ teams' = <<>>
  /\ UNCHANGED <<authVars, teamName, groupName, teamId, buildVars, runVars>>

\* the group listing request rejects
GetGroupsRejected ==
  /\ pc = "resolveGroupId"
  /\ pc' = "failed"
  /\ err' = Error("groups request failed", <<>>)
  /\ teams' = <<>>
  /\ UNCHANGED <<authVars, teamName, groupName, groups, teamId, groupId, buildVars, runVars>>

InitResolve ==
  /\ pc = "resolveTeamId"
  /\ err = NoError
  /\ now = 0
  /\ loginResponse = Undefined
  /\ authPre = Undefined
  /\ authNow = 0
  /\ authLogins = 0
  /\ authRet = Undefined
  /\ teamName \in {"Apps", "apps"}
  /\ groupName \in GroupNames
  /\ teams = <<>> /\ groups = <<>>
  /\ teamId = 0 /\ groupId = 0
  /\ protectionJsonInline = <<>> /\ protectionJsonFile = <<>>
  /\ req = <<>>
  /\ RunIdle

NextResolve ==
  \/ ResolveTeamId
  \/ GetTeamsRejected
  \/ ResolveGroupId
  \/ GetGroupsRejected

SpecResolve == InitResolve /\ [][NextResolve]_vars

(***************************************************************************)
(* Protection request builder                                               *)
(*                                                                          *)
(* A policy document is a JSON object, modelled as a function from its keys *)
(* to their values.  An input text is [given, readable, valid, doc]: given  *)
(* when the input is a non-empty string, readable when the file behind a    *)
(* path can be read, valid when the text is JSON, doc what it parses to     *)
(* (read only when the text is valid).                                      *)
(***************************************************************************)
DefaultPolicy ==
  [description |-> "CI zShield Pro protection",
   signatureVerification |-> FALSE,
   staticDexEncryption |-> TRUE,
   resourceEncryption |-> TRUE,
   metadataEncryption |-> TRUE,
   codeObfuscation |-> FALSE,
   runtimeProtection |-> TRUE,
   autoScanBuild |-> TRUE]

\* a document with a description and, when t or g is not 0, its own teamId
\* and groupId
MkDoc(d, t, g) ==
  [k \in {"description"} \cup (IF t = 0 THEN {} ELSE {"teamId"})
                         \cup (IF g = 0 THEN {} ELSE {"groupId"}) |->
     IF k = "description" THEN d ELSE IF k = "teamId" THEN t ELSE g]

PolicyDocs ==
  {MkDoc(d, t, g) : d \in {"strict", "lax"}, t \in 0..MaxTeams, g \in 0..MaxGroups}

NotGiven == [given |-> FALSE, readable |-> FALSE, valid |-> FALSE, doc |-> DefaultPolicy]
BadText  == [given |-> TRUE, readable |-> TRUE, valid |-> FALSE, doc |-> DefaultPolicy]
NoFile   == [given |-> TRUE, readable |-> FALSE, valid |-> FALSE, doc |-> DefaultPolicy]
Text(d)  == [given |-> TRUE, readable |-> TRUE, valid |-> TRUE, doc |-> d]

InlineInputs == {NotGiven, BadText} \cup {Text(d) : d \in PolicyDocs}
FileInputs   == {NotGiven, NoFile, BadText} \cup {Text(d) : d \in PolicyDocs}

\* req.key = value
SetField(doc, key, value) ==
  [k \in DOMAIN doc \cup {key} |-> IF k = key THEN value ELSE doc[k]]

\* req.key = req.key || value
SetFieldIfMissing(doc, key, value) ==
  IF key \in DOMAIN doc THEN doc ELSE SetField(doc, key, value)

Built(doc)  == [ok |-> TRUE, req |-> doc, err |-> NoError]
NotBuilt(e) == [ok |-> FALSE, req |-> DefaultPolicy, err |-> e]

\* JSON.parse(fs.readFileSync(path, 'utf8')) and JSON.parse(text)
ParseInput(input) ==
  IF ~input.readable THEN NotBuilt(Error("ENOENT: no such file or directory", <<>>))
  ELSE IF ~input.valid THEN NotBuilt(Error("SyntaxError: not valid JSON", <<>>))
  ELSE Built(input.doc)

\* the ids only filled in where the document has none
buildProtectionRequest_KeepDocIds(inline, file, tid, gid) ==
  LET src == IF file.given THEN ParseInput(file)
             ELSE IF inline.given THEN ParseInput(inline)
             ELSE Built(DefaultPolicy)
  IN IF src.ok
       THEN Built(SetFieldIfMissing(SetFieldIfMissing(src.req, "teamId", tid),
                                    "groupId", gid))
       ELSE src

\* buildProtectionRequest(teamId, groupId) over the two module-level inputs
buildProtectionRequest(inline, file, tid, gid) ==
  LET src == IF file.given THEN ParseInput(file)
             ELSE IF inline.given THEN ParseInput(inline)
             ELSE Built(DefaultPolicy)
  IN IF src.ok
       THEN Built(SetField(SetField(src.req, "teamId", tid), "groupId", gid))
       ELSE src

\* run() builds the request from the resolved ids
BuildProtectionRequest ==
  /\ pc = "build"
  /\ LET r == buildProtectionRequest(protectionJsonInline, protectionJsonFile,
                                     teamId, groupId)
     IN IF r.ok
          THEN pc' = "built" /\ req' = r.req /\ UNCHANGED err
          ELSE pc' = "failed" /\ err' = r.err /\ UNCHANGED req
  /\ UNCHANGED <<authVars, resolveVars, protectionJsonInline, protectionJsonFile, runVars>>

InitBuild ==
  /\ pc = "build"
  /\ err = NoError
  /\ now = 0
  /\ loginResponse = Undefined
  /\ authPre = Undefined
  /\ authNow = 0
  /\ authLogins = 0
  /\ authRet = Undefined
  /\ teamName = "" /\ groupName = ""
  /\ teams = <<>> /\ groups = <<>>
  /\ teamId \in TeamIds
  /\ groupId \in GroupIds
  /\ protectionJsonInline \in InlineInputs
  /\ protectionJsonFile \in FileInputs
  /\ req = <<>>
  /\ RunIdle

NextBuild == BuildProtectionRequest

SpecBuild == InitBuild /\ [][NextBuild]_vars

(***************************************************************************)
(* run(): the whole invocation                                              *)
(*                                                                          *)
(* pc is "files" before the file pattern is expanded, "auth" when the call  *)
(* under way is about to ask loginHttpRequest for a credential, "login"     *)
(* while the login POST is in flight, "request" while the call's own        *)
(* request is in flight, "while" at the loop test of pollUntilProtected,    *)
(* "sleep" while it is suspended, and "done" or "failed" at the end.        *)
(* calls records loginHttpRequest, buildProtectionRequest and every request *)
(* in the order they were made.                                             *)
(***************************************************************************)
MaxTimeoutMinutes == 1   \* largest timeout_minutes input

MAX_FILES == 5

\* time a request spends in flight (ms)
Latencies(s) ==
  IF s \in {"submitProtect", "getBuild"} THEN {0, 20000} ELSE {0}

\* the request each call of run() sends
OpOf(s) ==
  CASE s = "getTeams"              -> "GET teams"
    [] s = "getGroups"             -> "GET groups"
    [] s = "submitProtect"         -> "POST protect"
    [] s = "getBuild"              -> "GET build"
    [] s = "getProtectedLink"      -> "GET protected"
    [] s = "downloadFromSignedUrl" -> "GET signedUrl"

Requests ==
  {"POST login", "GET teams", "GET groups", "POST protect", "GET build",
   "GET protected", "GET signedUrl"}

\* the poll is made without asking for a credential
Authenticated_NotGetBuild(s) == s \notin {"getBuild", "downloadFromSignedUrl"}

\* the calls that start with  const auth = await loginHttpRequest()
Authenticated(s) == s # "downloadFromSignedUrl"

\* the group listing is requested after the job was submitted
StepAfter_SubmitEarly(s) ==
  CASE s = "getTeams"         -> "submitProtect"
    [] s = "submitProtect"    -> "getGroups"
    [] s = "getGroups"        -> "getBuild"
    [] s = "getBuild"         -> "getProtectedLink"
    [] s = "getProtectedLink" -> "downloadFromSignedUrl"

\* the order of the awaited calls in run()
StepAfter(s) ==
  CASE s = "getTeams"         -> "getGroups"
    [] s = "getGroups"        -> "submitProtect"
    [] s = "submitProtect"    -> "getBuild"
    [] s = "getBuild"         -> "getProtectedLink"
    [] s = "getProtectedLink" -> "downloadFromSignedUrl"

\* a rejected request is sent once more
AfterRejection_Retry(at) == at

\* no call is wrapped in a try: a rejection ends run() in its catch handler
AfterRejection(at) == "failed"

\* the next call s of run() is entered with the record of calls log: it asks
\* for a credential first, or sends its request at once
Enter(s, log) ==
  /\ step' = s
  /\ sent' = <<>>
  /\ IF Authenticated(s)
       THEN pc' = "auth" /\ calls' = log
       ELSE pc' = "request" /\ calls' = Append(log, OpOf(s))

\* run() throws e
Fail(e) ==
  /\ pc' = "failed"
  /\ err' = e

\* bodies the login endpoint answers with during a run
RunLoginBodies ==
  {Cred(<<>>)} \cup {Cred(<<NotJson, Claims(e), NotJson>>) : e \in {30, 600}}

\* getMatchingFiles and the single-file rule of run()
RunGetMatchingFiles ==
  /\ pc = "files"
  /\ \E n \in 0..(MAX_FILES + 1) :
       IF n = 0
         THEN Fail(Error("No files found matching pattern", <<>>))
              /\ UNCHANGED <<step, calls, sent>>
       ELSE IF n > MAX_FILES
         THEN Fail(Error("Pattern matched too many files", <<>>))
              /\ UNCHANGED <<step, calls, sent>>
       ELSE IF n # 1
         THEN Fail(Error("app_file must resolve to exactly 1 file", <<>>))
              /\ UNCHANGED <<step, calls, sent>>
       ELSE Enter("getTeams", calls) /\ UNCHANGED err
  /\ UNCHANGED <<authVars, teams, groups, teamId, groupId, req, inputVars,
                 jobVars, failedCall>>

\* loginHttpRequest as called by the call under way: the cached credential
\* is returned and the call's request goes out, or the login POST goes out
RunLoginHttpRequest ==
  /\ pc = "auth"
  /\ authPre' = loginResponse
  /\ authNow' = now
  /\ IF cachedTokenValid(loginResponse, now)
       THEN /\ pc' = "request"
            /\ authRet' = loginResponse
            /\ authLogins' = 0
            /\ sent' = loginResponse.accessToken
            /\ calls' = calls \o <<"loginHttpRequest", OpOf(step)>>
       ELSE /\ pc' = "login"
            /\ authRet' = Undefined
            /\ authLogins' = 1
            /\ sent' = <<>>
            /\ calls' = calls \o <<"loginHttpRequest", "POST login">>
  /\ UNCHANGED <<err, now, loginResponse, teams, groups, teamId, groupId, req,
                 inputVars, step, jobVars, failedCall>>

\* the login POST resolves: the body is stored, checked, and the call's own
\* request goes out with the new token
RunLoginResponse ==
  /\ pc = "login"
  /\ \E d \in Latencies("loginHttpRequest"), data \in RunLoginBodies :
       /\ now' = now + d
       /\ loginResponse' = data
       /\ IF ~data.has \/ data.accessToken = <<>>
            THEN /\ Fail(Error("Login response missing accessToken", <<>>))
                 /\ UNCHANGED <<authRet, sent, calls>>
            ELSE /\ pc' = "request"
                 /\ authRet' = data
                 /\ sent' = data.accessToken
                 /\ calls' = Append(calls, OpOf(step))
                 /\ UNCHANGED err
  /\ UNCHANGED <<authPre, authNow, authLogins, teams, groups, teamId, groupId,
                 req, inputVars, step, jobVars, failedCall>>

\* the request in flight rejects (no connection, or a status axios rejects)
RunRequestRejected ==
  /\ pc \in {"login", "request"}
  /\ pc' = AfterRejection(pc)
  /\ err' = Error("request failed", <<>>)
  /\ failedCall' = calls[Len(calls)]
  /\ UNCHANGED <<authVars, teams, groups, teamId, groupId, req, inputVars,
                 step, jobVars, calls, sent>>

\* resolveTeamId once the team listing has arrived; run() goes on to
\* resolveGroupId
RunTeamsResponse ==
  /\ pc = "request" /\ step = "getTeams"
  /\ \E d \in Latencies(step), listing \in TeamListings :
       LET r == resolveTeamId(listing, teamName)
       IN /\ now' = now + d
          /\ IF r.ok
               THEN teamId' = r.id /\ Enter(StepAfter(step), calls) /\ UNCHANGED err
               ELSE Fail(r.err) /\ UNCHANGED <<teamId, step, calls, sent>>
  /\ UNCHANGED <<loginResponse, authPre, authNow, authLogins, authRet, teams,
                 groups, groupId, req, inputVars, jobVars, failedCall>>

\* resolveGroupId once the group listing has arrived, then
\* buildProtectionRequest, then run() calls submitProtect
RunGroupsResponse ==
  /\ pc = "request" /\ step = "getGroups"
  /\ \E d \in Latencies(step), listing \in GroupListings :
       LET r == resolveGroupId(listing, groupName, teamId)
           b == buildProtectionRequest(protectionJsonInline, protectionJsonFile,
                                       teamId, r.id)
       IN /\ now' = now + d
          /\ IF ~r.ok
               THEN Fail(r.err)
                    /\ UNCHANGED <<groupId, req, step, calls, sent, submitAt>>
             ELSE IF ~b.ok
               THEN Fail(b.err) /\ groupId' = r.id
                    /\ calls' = Append(calls, "buildProtectionRequest")
                    /\ UNCHANGED <<req, step, sent, submitAt>>
             ELSE /\ groupId' = r.id
                  /\ req' = b.req
                  /\ submitAt' = now'
                  /\ Enter(StepAfter(step), Append(calls, "buildProtectionRequest"))
                  /\ UNCHANGED err
  /\ UNCHANGED <<loginResponse, authPre, authNow, authLogins, authRet, teams,
                 groups, teamId, inputVars, submittedAt, start, buildId, build,
                 link, signedUrl, outFile, outputs, sleeps, pollLog,
                 failedCall,
                 downloadVars>>

\* const start = Date.now() taken from the time the job was submitted at
pollStart_FromSubmit(t, submitted) == submitted

\* const start = Date.now() on entry of pollUntilProtected
pollStart(t, submitted) == t

\* the build id is kept for the end of the run and not set as an output
setBuildId_Later(outs, id) == outs

\* core.setOutput('build_id', String(buildId)), before polling starts
setBuildId(outs, id) == [outs EXCEPT !.build_id = id]

\* the submit response arrives: the buildId is checked and set as an output,
\* and pollUntilProtected is entered
RunSubmitResponse ==
  /\ pc = "request" /\ step = "submitProtect"
  /\ \E d \in Latencies(step), id \in {"", "b1"} :
       /\ now' = now + d
       /\ submittedAt' = now'
       /\ IF id = ""
            THEN Fail(Error("Protect response missing buildId", <<>>))
                 /\ UNCHANGED <<buildId, outputs, start, step>>
            ELSE /\ buildId' = id
                 /\ outputs' = setBuildId(outputs, id)
                 /\ start' = pollStart(now', submitAt)
                 /\ step' = StepAfter(step)
                 /\ pc' = "while"
                 /\ UNCHANGED err
  /\ UNCHANGED <<loginResponse, authPre, authNow, authLogins, authRet,
                 resolveVars, buildVars, timeoutMinutes, pollIntervalSeconds,
                 submitAt, build, link, signedUrl, outFile, calls, sent,
                 sleeps, pollLog, failedCall,
                 downloadVars>>

STATUS_POLL_TIME(seconds) == seconds * 1000
MAX_POLL_TIME(minutes)    == minutes * 60 * 1000

\* a do-while loop: the first poll goes out whatever the limit
pollOn_FirstAlways(t, st, minutes) ==
  t = st \/ t - st < MAX_POLL_TIME(minutes)

\* a poll is still made when the whole of the wait has been used up
pollOn_Inclusive(t, st, minutes) == t - st <= MAX_POLL_TIME(minutes)

\* the loop test  Date.now() - start < MAX_POLL_TIME
pollOn(t, st, minutes) == t - st < MAX_POLL_TIME(minutes)

\* the loop test of pollUntilProtected: another getBuild, or the timeout
RunWhile ==
  /\ pc = "while"
  /\ IF pollOn(now, start, timeoutMinutes)
       THEN Enter("getBuild", calls) /\ UNCHANGED err
       ELSE Fail(Error("Timed out waiting for protected artifact", <<>>))
            /\ UNCHANGED <<step, calls, sent>>
  /\ UNCHANGED <<authVars, resolveVars, buildVars, timeoutMinutes,
                 pollIntervalSeconds, jobVars, failedCall>>

\* states of a build the service reports, and what it may answer to a poll
BuildStates   == {"RUNNING", "PROTECTED", "FAILED", "ERROR"}
PollResponses == [state : BuildStates, protectedUrl : {"", "u1"}]

\* a url counts only under the PROTECTED label
pollVerdict_UrlNeedsLabel(b) ==
  IF b.protectedUrl # "" /\ b.state = "PROTECTED" THEN "return"
  ELSE IF b.state \in {"FAILED", "ERROR"} THEN "failed"
  ELSE "sleep"

\* the url is looked at only when the state is not a failure
pollVerdict_StateFirst(b) ==
  IF b.state \in {"FAILED", "ERROR"} THEN "failed"
  ELSE IF b.protectedUrl # "" THEN "return"
  ELSE "sleep"

\* the success label ends the loop, with or without a url
pollVerdict_ByLabel(b) ==
  IF b.protectedUrl # "" \/ b.state = "PROTECTED" THEN "return"
  ELSE IF b.state \in {"FAILED", "ERROR"} THEN "failed"
  ELSE "sleep"

\* what the loop body does with a poll response
pollVerdict(b) ==
  IF b.protectedUrl # "" THEN "return"
  ELSE IF b.state \in {"FAILED", "ERROR"} THEN "failed"
  ELSE "sleep"

\* the wait grows with every poll
sleepTime_Backoff(seconds, polls) == STATUS_POLL_TIME(seconds) * (polls + 1)

\* await sleep(STATUS_POLL_TIME), whatever the number of polls made
sleepTime(seconds, polls) == STATUS_POLL_TIME(seconds)

\* a poll response arrives: pollUntilProtected returns, throws or sleeps
RunBuildResponse ==
  /\ pc = "request" /\ step = "getBuild"
  /\ \E d \in Latencies(step), b \in PollResponses :
       /\ now' = now + d
       /\ build' = b
       /\ pollLog' = Append(pollLog, b)
       /\ CASE pollVerdict(b) = "return" ->
                 Enter(StepAfter(step), calls) /\ UNCHANGED <<err, sleeps>>
            [] pollVerdict(b) = "failed" ->
                 Fail(Error("zShield build failed", <<>>))
                 /\ UNCHANGED <<step, calls, sent, sleeps>>
            [] pollVerdict(b) = "sleep" ->
                 /\ pc' = "sleep"
                 /\ sleeps' = Append(sleeps,
                                     sleepTime(pollIntervalSeconds, Len(pollLog) + 1))
                 /\ UNCHANGED <<err, step, calls, sent>>
  /\ UNCHANGED <<loginResponse, authPre, authNow, authLogins, authRet,
                 resolveVars, buildVars, timeoutMinutes, pollIntervalSeconds,
                 submitAt, submittedAt, start, buildId, link, signedUrl,
                 outFile, outputs, failedCall,
                 downloadVars>>

\* the timer of sleep() fires and the loop test comes next
RunSleepOver ==
  /\ pc = "sleep"
  /\ now' = now + sleeps[Len(sleeps)]
  /\ pc' = "while"
  /\ UNCHANGED <<err, loginResponse, authPre, authNow, authLogins, authRet,
                 resolveVars, buildVars, runVars>>

\* bodies the /protected endpoint answers with
LinkResponses == [name : {"app.apk"}, url : {"", "u2"}]

\* the download goes to the url the poll response carried
downloadSource_FromPoll(descriptor, polled) == polled.protectedUrl

\* run() passes link.url to downloadFromSignedUrl
downloadSource(descriptor, polled) == descriptor.url

\* the descriptor arrives: without a url getProtectedLink throws, with one
\* run() calls downloadFromSignedUrl, which sends its request
RunLinkResponse ==
  /\ pc = "request" /\ step = "getProtectedLink"
  /\ \E d \in Latencies(step), l \in LinkResponses :
       /\ now' = now + d
       /\ IF l.url = ""
            THEN Fail(Error("Unexpected /protected response", <<>>))
                 /\ UNCHANGED <<link, signedUrl, step, calls, sent>>
            ELSE /\ link' = l
                 /\ signedUrl' = downloadSource(l, build)
                 /\ Enter(StepAfter(step), calls)
                 /\ UNCHANGED err
  /\ UNCHANGED <<loginResponse, authPre, authNow, authLogins, authRet,
                 resolveVars, buildVars, timeoutMinutes, pollIntervalSeconds,
                 submitAt, submittedAt, start, buildId, build, outFile,
                 outputs, sleeps, pollLog, failedCall,
                 downloadVars>>

\* content-type header values, cut into the pieces the check can tell apart:
\* <<>> when the header is missing
ContentTypes ==
  {<<>>, <<"application/octet-stream">>, <<"text/html">>,
   <<"text/html", "; charset=utf-8">>, <<"TEXT/HTML">>, <<"application/xml">>}

\* bodies: empty, "PK" alone, "PK" with one byte, a zip header, a zip header
\* with one more byte, "<htm", and four bytes with "P" but not "K"
Payloads4 ==
  {<<>>, <<80, 75>>, <<80, 75, 3>>, <<80, 75, 3, 4>>, <<80, 75, 3, 4, 20>>,
   <<60, 104, 116, 109>>, <<80, 76, 3, 4>>}

\* responses to the download request: status, content type and body bytes
SignedUrlResponses ==
  [status : {199, 200, 299, 300, 404}, ct : ContentTypes, data : Payloads4]

\* the responses drawn within a whole run
DownloadResponses ==
  {r \in SignedUrlResponses :
     /\ r.status \in {200, 404}
     /\ r.ct \in {<<>>, <<"text/html", "; charset=utf-8">>}
     /\ r.data \in {<<80, 75>>, <<80, 75, 3, 4>>}}

\* the header value is text/html and nothing else
isHtml_Exact(ct) == ct = <<"text/html">>

\* ct.includes('text/html')
isHtml(ct) == \E i \in 1..Len(ct) : ct[i] = "text/html"

\* the two magic bytes alone decide
isZip_MagicOnly(data) == Len(data) >= 2 /\ data[1] = 80 /\ data[2] = 75

\* !(data.length < 4 || data[0] !== 0x50 || data[1] !== 0x4B)
isZip(data) == ~(Len(data) < 4 \/ data[1] # 80 \/ data[2] # 75)

\* the checks of downloadFromSignedUrl on the response, in their order
downloadVerdict(r) ==
  IF r.status < 200 \/ r.status >= 300
    THEN "Signed URL download failed HTTP"
  ELSE IF isHtml(r.ct)
    THEN "Signed URL returned HTML (not APK)"
  ELSE IF ~isZip(r.data)
    THEN "Downloaded file is not APK/ZIP"
  ELSE "ok"

\* the body is written to disk first and its magic bytes are checked after
fileAfterDownload_WriteFirst(r, old) ==
  IF downloadVerdict(r) \in {"ok", "Downloaded file is not APK/ZIP"}
    THEN r.data ELSE old

\* what the output path holds after the call: fs.writeFileSync(outPath, data)
\* is reached only past every check
fileAfterDownload(r, old) == IF downloadVerdict(r) = "ok" THEN r.data ELSE old

\* the output is named <base>_protected.apk
outPath_Protected(out, f) == IF out # "" THEN out ELSE f.base \o "_protected.apk"

\* outputFileInput || `${baseName}_zshield_protected.apk`
outPath(out, f) == IF out # "" THEN out ELSE f.base \o "_zshield_protected.apk"

\* the download response arrives: it is checked, written to the output path
\* and the path is set as the protected_file output
DownloadFromSignedUrl(responses) ==
  /\ pc = "request" /\ step = "downloadFromSignedUrl"
  /\ \E d \in Latencies(step), r \in responses :
       /\ now' = now + d
       /\ resp' = r
       /\ outFile' = fileAfterDownload(r, outFile)
       /\ IF downloadVerdict(r) = "ok"
            THEN /\ outputs' = [outputs EXCEPT
                                  !.protected_file = outPath(outputFileInput, inputFile)]
                 /\ pc' = "done"
                 /\ UNCHANGED err
            ELSE /\ Fail(Error(downloadVerdict(r), <<>>))
                 /\ UNCHANGED outputs
  /\ UNCHANGED <<loginResponse, authPre, authNow, authLogins, authRet,
                 resolveVars, buildVars, step, timeoutMinutes,
                 pollIntervalSeconds, submitAt, submittedAt, start, buildId,
                 build, link, signedUrl, calls, sent, sleeps, pollLog,
                 failedCall, outputFileInput, inputFile>>

\* the download step of a whole run
RunDownloadResponse == DownloadFromSignedUrl(DownloadResponses)

InitRun ==
  /\ pc = "files"
  /\ err = NoError
  /\ now = 0
  /\ loginResponse = Undefined
  /\ authPre = Undefined
  /\ authNow = 0
  /\ authLogins = 0
  /\ authRet = Undefined
  /\ teamName = "Apps" /\ groupName = "G"
  /\ teams = <<>> /\ groups = <<>>
  /\ teamId = 0 /\ groupId = 0
  /\ protectionJsonInline \in {NotGiven, BadText}
  /\ protectionJsonFile = NotGiven
  /\ req = <<>>
  /\ step = ""
  /\ timeoutMinutes \in -1..MaxTimeoutMinutes
  /\ pollIntervalSeconds \in {30, 60}
  /\ submitAt = 0 /\ submittedAt = 0 /\ start = 0
  /\ buildId = ""
  /\ build = NoBuild
  /\ link = NoLink
  /\ signedUrl = ""
  /\ outFile = <<>>
  /\ outputs = NoOutputs
  /\ calls = <<>>
  /\ sent = <<>>
  /\ sleeps = <<>>
  /\ pollLog = <<>>
  /\ failedCall = ""
  /\ outputFileInput = ""
  /\ inputFile = [base |-> "app", ext |-> ".apk"]
  /\ resp = NoResp

NextRun ==
  \/ RunGetMatchingFiles
  \/ RunLoginHttpRequest
  \/ RunLoginResponse
  \/ RunRequestRejected
  \/ RunTeamsResponse
  \/ RunGroupsResponse
  \/ RunSubmitResponse
  \/ RunWhile
  \/ RunBuildResponse
  \/ RunSleepOver
  \/ RunLinkResponse
  \/ RunDownloadResponse

SpecRun == InitRun /\ [][NextRun]_vars

\* every timer fires and every request is answered or rejected in the end
SpecRunFair == SpecRun /\ WF_vars(NextRun)

(***************************************************************************)
(* downloadFromSignedUrl on its own (SpecDownload): a run that has come to   *)
(* the download with two polls behind it, and every response the signed     *)
(* url may give.                                                            *)
(***************************************************************************)
InputFiles  == {[base |-> "app", ext |-> ".apk"],
                [base |-> "app-release", ext |-> ".aab"]}
OutputFiles == {"", "out/protected.apk"}

\* the long-lived token of the run's one login
RunToken == Cred(<<NotJson, Claims(600), NotJson>>)

InitDownload ==
  /\ pc = "request"
  /\ step = "downloadFromSignedUrl"
  /\ err = NoError
  /\ now = 30000
  /\ loginResponse = RunToken
  /\ authPre = RunToken
  /\ authNow = 30000
  /\ authLogins = 0
  /\ authRet = RunToken
  /\ teamName = "Apps" /\ groupName = "G"
  /\ teams = <<>> /\ groups = <<>>
  /\ teamId = 1 /\ groupId = 1
  /\ protectionJsonInline = NotGiven
  /\ protectionJsonFile = NotGiven
  /\ req = buildProtectionRequest(NotGiven, NotGiven, 1, 1).req
  /\ timeoutMinutes = 1
  /\ pollIntervalSeconds = 30
  /\ submitAt = 0 /\ submittedAt = 0 /\ start = 0
  /\ buildId = "b1"
  /\ build = [state |-> "RUNNING", protectedUrl |-> "u1"]
  /\ link = [name |-> "app.apk", url |-> "u2"]
  /\ signedUrl = "u2"
  /\ outFile = <<>>
  /\ outputs = [build_id |-> "b1", protected_file |-> ""]
  /\ calls = <<"loginHttpRequest", "POST login", "GET teams",
               "loginHttpRequest", "GET groups", "buildProtectionRequest",
               "loginHttpRequest", "POST protect",
               "loginHttpRequest", "GET build",
               "loginHttpRequest", "GET build",
               "loginHttpRequest", "GET protected", "GET signedUrl">>
  /\ sent = <<>>
  /\ sleeps = <<30000>>
  /\ pollLog = <<[state |-> "RUNNING", protectedUrl |-> ""],
                 [state |-> "RUNNING", protectedUrl |-> "u1"]>>
  /\ failedCall = ""
  /\ outputFileInput \in OutputFiles
  /\ inputFile \in InputFiles
  /\ resp = NoResp

\* the signed url answers
DownloadResponse == DownloadFromSignedUrl(SignedUrlResponses)

NextDownload ==
  \/ DownloadResponse
  \/ RunRequestRejected

SpecDownload == InitDownload /\ [][NextDownload]_vars

(***************************************************************************)
(* A run with the default poll interval and no policy input (SpecScenario)  *)
(***************************************************************************)
\* parseInt(core.getInput('poll_interval_seconds') || '15', 10)
DefaultPollIntervalSeconds == 15

InitScenario ==
  /\ pc = "files"
  /\ err = NoError
  /\ now = 0
  /\ loginResponse = Undefined
  /\ authPre = Undefined
  /\ authNow = 0
  /\ authLogins = 0
  /\ authRet = Undefined
  /\ teamName = "Apps" /\ groupName = "G"
  /\ teams = <<>> /\ groups = <<>>
  /\ teamId = 0 /\ groupId = 0
  /\ protectionJsonInline = NotGiven
  /\ protectionJsonFile = NotGiven
  /\ req = <<>>
  /\ step = ""
  /\ timeoutMinutes = 1
  /\ pollIntervalSeconds = DefaultPollIntervalSeconds
  /\ submitAt = 0 /\ submittedAt = 0 /\ start = 0
  /\ buildId = ""
  /\ build = NoBuild
  /\ link = NoLink
  /\ signedUrl = ""
  /\ outFile = <<>>
  /\ outputs = NoOutputs
  /\ calls = <<>>
  /\ sent = <<>>
  /\ sleeps = <<>>
  /\ pollLog = <<>>
  /\ failedCall = ""
  /\ outputFileInput = ""
  /\ inputFile \in InputFiles
  /\ resp = NoResp

SpecScenario == InitScenario /\ [][NextRun]_vars

(***************************************************************************)
(* Properties of the credential cache (SpecAuth)                            *)
(***************************************************************************)
\* the credential c carries a token whose second segment decodes to claims
\* with an exp that lies after instant t
HasUnexpiredToken(c, t) ==
  /\ c.has
  /\ Len(c.accessToken) >= 2
  /\ c.accessToken[2].json = "object"
  /\ c.accessToken[2].hasExp
  /\ t < c.accessToken[2].exp * 1000

\* loginHttpRequest has been entered and the state still shows that call
AuthCallVisible == pc \in {"login", "returned", "thrown"}

\* C6: a call of loginHttpRequest that finds a cached credential whose token
\* is unexpired (now < exp*1000) returns at once, issues no login POST and
\* returns the cached credential, which stays as it was.
C6_FreshCacheNoLogin ==
  (AuthCallVisible /\ HasUnexpiredToken(authPre, authNow)) =>
    /\ pc = "returned"
    /\ authLogins = 0
    /\ authRet = authPre
    /\ loginResponse = authPre

\* a later call (the clock has advanced since the login) served from the cache
C6_Witness ==
  /\ pc = "returned"
  /\ authNow > 0
  /\ HasUnexpiredToken(authPre, authNow)
  /\ authLogins = 0
  /\ authRet = authPre

\* C7: a call of loginHttpRequest that finds no credential, an expired token
\* or a malformed token issues exactly one login POST.
C7_StaleCacheOneLogin ==
  (AuthCallVisible /\ ~HasUnexpiredToken(authPre, authNow)) => authLogins = 1

\* a cached token whose exp has passed made the call log in again
C7_Witness ==
  /\ pc = "returned"
  /\ authPre.has
  /\ Len(authPre.accessToken) >= 2
  /\ authPre.accessToken[2].hasExp
  /\ authNow >= authPre.accessToken[2].exp * 1000
  /\ authLogins = 1
  /\ authRet # authPre

\* C8 as claimed: a login response without accessToken makes loginHttpRequest
\* fail and leaves the cached credential as it was before the call.
C8_InvalidLoginLeavesCache ==
  (pc = "thrown" /\ err.text = "Login response missing accessToken") =>
    loginResponse = authPre

(***************************************************************************)
(* Properties of the name resolver (SpecResolve)                            *)
(***************************************************************************)
\* positions of the listing whose name equals the requested group name, those
\* of them scoped to the target team, and those of them that are global
MatchIdx  == {i \in 1..Len(groups) : groups[i].name = groupName}
TeamIdx   == {i \in MatchIdx : groups[i].team = <<teamId>>}
GlobalIdx == {i \in MatchIdx : groups[i].team = <<>>}
OtherIdx  == MatchIdx \ (TeamIdx \cup GlobalIdx)

GroupStepOver == pc \in {"resolved", "failed"}

\* C1: when exactly one name-matching group is scoped to the target team,
\* resolveGroupId returns that group's id, whatever global groups and groups
\* of other teams carry the same name.
C1_TeamScopedWins ==
  (GroupStepOver /\ Cardinality(TeamIdx) = 1) =>
    /\ pc = "resolved"
    /\ \A i \in TeamIdx : groupId = groups[i].id

\* the team-scoped group chosen next to a global and another team's namesake
C1_Witness ==
  /\ pc = "resolved"
  /\ Cardinality(TeamIdx) = 1
  /\ GlobalIdx # {}
  /\ OtherIdx # {}
  /\ \A i \in TeamIdx : groupId = groups[i].id

\* C2: resolveGroupId fails, returning no id, when two or more name matches
\* are scoped to the target team, and when none is and two or more are global.
C2_AmbiguityFatal ==
  (/\ GroupStepOver
   /\ \/ Cardinality(TeamIdx) >= 2
      \/ Cardinality(TeamIdx) = 0 /\ Cardinality(GlobalIdx) >= 2) =>
    /\ pc = "failed"
    /\ groupId = 0

\* two groups of the requested name in the target team: the ambiguity error
C2_Witness ==
  /\ pc = "failed"
  /\ Cardinality(TeamIdx) >= 2
  /\ err.text = "Group is ambiguous within team"

\* C3: name matches that are all scoped to other teams make resolveGroupId
\* fail, and an id that resolveGroupId returns is never that of a group scoped
\* to a team other than the target team.
C3_OtherTeamsNeverUsed ==
  /\ (GroupStepOver /\ MatchIdx # {} /\ TeamIdx = {} /\ GlobalIdx = {}) =>
       (pc = "failed" /\ groupId = 0)
  /\ pc = "resolved" =>
       \A i \in 1..Len(groups) :
         groups[i].id = groupId => groups[i].team \in {<<>>, <<teamId>>}

\* only other teams own a group of the requested name: not accessible
C3_Witness ==
  /\ pc = "failed"
  /\ OtherIdx # {}
  /\ TeamIdx = {} /\ GlobalIdx = {}
  /\ err.text = "Group exists but is not accessible for team"

\* C4 as claimed: several groups of the requested name in the listing make
\* the resolution fail.
C4_MultipleMatchesFail ==
  (GroupStepOver /\ Cardinality(MatchIdx) >= 2) => pc = "failed"

\* C4 amended: several groups of the requested name make the resolution
\* fail unless exactly one of them is scoped to the target team, or none is
\* and exactly one of them is global.
C4_MultipleMatchesFailUnlessTierDecides ==
  (/\ GroupStepOver
   /\ Cardinality(MatchIdx) >= 2
   /\ Cardinality(TeamIdx) # 1
   /\ ~(Cardinality(TeamIdx) = 0 /\ Cardinality(GlobalIdx) = 1)) =>
    /\ pc = "failed"
    /\ groupId = 0

\* several namesakes, all of other teams: the resolution fails
C4_Witness ==
  /\ pc = "failed"
  /\ Cardinality(MatchIdx) >= 2
  /\ MatchIdx = OtherIdx
  /\ groupId = 0

TeamHits == {i \in 1..Len(teams) : teams[i].name = teamName}

TeamStepOver ==
  \/ pc = "resolveGroupId"
  \/ pc = "failed" /\ err.text = "Team not found. Available teams"

\* C5: resolveTeamId returns the id of the first entry whose name equals the
\* argument exactly; with no such entry it fails and the error names every
\* team of the listing.
C5_TeamFirstExactMatch ==
  TeamStepOver =>
    IF TeamHits # {}
      THEN /\ pc = "resolveGroupId"
           /\ \E i \in TeamHits :
                /\ \A j \in TeamHits : i <= j
                /\ teamId = teams[i].id
      ELSE /\ pc = "failed"
           /\ \A i \in 1..Len(teams) :
                \E k \in 1..Len(err.names) : err.names[k] = teams[i].name

\* a listing that holds the name only in another case: the error lists it
C5_Witness ==
  /\ pc = "failed"
  /\ Len(teams) = 2
  /\ \E i \in 1..Len(teams) :
       teams[i].name # teamName /\ Lower(teams[i].name) = Lower(teamName)
  /\ Len(err.names) = 2

\* two entries of the requested name: the id of the first one is returned
C5_WitnessFirstOfTwo ==
  /\ pc = "resolveGroupId"
  /\ Cardinality(TeamHits) = 2
  /\ teamId = teams[1].id

(***************************************************************************)
(* Properties of the protection request builder (SpecBuild)                 *)
(***************************************************************************)
\* the document without the two injected fields
Policy(doc) == [k \in DOMAIN doc \ {"teamId", "groupId"} |-> doc[k]]

\* C9: whichever source the document comes from and whatever it holds, the
\* request that buildProtectionRequest returns carries the teamId and the
\* groupId it was called with.
C9_IdsOverwritten ==
  pc = "built" =>
    /\ {"teamId", "groupId"} \subseteq DOMAIN req
    /\ req["teamId"] = teamId
    /\ req["groupId"] = groupId

\* an inline document with other ids of its own came back with the arguments
C9_Witness ==
  /\ pc = "built"
  /\ ~protectionJsonFile.given
  /\ protectionJsonInline.given
  /\ {"teamId", "groupId"} \subseteq DOMAIN protectionJsonInline.doc
  /\ protectionJsonInline.doc["teamId"] # teamId
  /\ protectionJsonInline.doc["groupId"] # groupId
  /\ req["teamId"] = teamId
  /\ req["groupId"] = groupId

\* the same from a policy file
C9_WitnessFile ==
  /\ pc = "built"
  /\ protectionJsonFile.given
  /\ {"teamId", "groupId"} \subseteq DOMAIN protectionJsonFile.doc
  /\ protectionJsonFile.doc["teamId"] # teamId
  /\ protectionJsonFile.doc["groupId"] # groupId
  /\ req["teamId"] = teamId
  /\ req["groupId"] = groupId

\* C10 as claimed: the request is built from the inline document when one is
\* given, from the file only when no inline document is given, and from the
\* built-in default only when neither is given.
C10_InlineBeforeFile ==
  pc = "built" =>
    IF protectionJsonInline.given
      THEN protectionJsonInline.valid
             /\ Policy(req) = Policy(protectionJsonInline.doc)
    ELSE IF protectionJsonFile.given
      THEN protectionJsonFile.valid
             /\ Policy(req) = Policy(protectionJsonFile.doc)
    ELSE Policy(req) = Policy(DefaultPolicy)

\* what the code does: the file is looked at first, the inline document only
\* when no file path is given
C10_FileBeforeInline ==
  pc = "built" =>
    IF protectionJsonFile.given
      THEN protectionJsonFile.valid
             /\ Policy(req) = Policy(protectionJsonFile.doc)
    ELSE IF protectionJsonInline.given
      THEN protectionJsonInline.valid
             /\ Policy(req) = Policy(protectionJsonInline.doc)
    ELSE Policy(req) = Policy(DefaultPolicy)

(***************************************************************************)
(* Properties of run() (SpecRun)                                            *)
(***************************************************************************)
\* the GET build requests sent so far
PollCount == Cardinality({i \in 1..Len(calls) : calls[i] = "GET build"})

\* pollUntilProtected has returned a build to run()
Returned == step \in {"getProtectedLink", "downloadFromSignedUrl"}

\* pollUntilProtected threw on a failure label
PollFailed ==
  /\ step = "getBuild" /\ pc = "failed"
  /\ err = Error("zShield build failed", <<>>)

\* pollUntilProtected threw on the deadline
TimedOut ==
  /\ step = "getBuild" /\ pc = "failed"
  /\ err = Error("Timed out waiting for protected artifact", <<>>)

FailureLabels == {"FAILED", "ERROR"}

\* C11: pollUntilProtected returns on the first poll response that carries a
\* protectedUrl, whatever its state says, and never on a response without
\* one: once it has returned, the last response polled carries a protectedUrl
\* and no earlier one does; while it has not, no response polled carries one.
C11_SuccessByUrl ==
  /\ Returned =>
       /\ pollLog # <<>>
       /\ pollLog[Len(pollLog)].protectedUrl # ""
       /\ build = pollLog[Len(pollLog)]
       /\ \A i \in 1..(Len(pollLog) - 1) : pollLog[i].protectedUrl = ""
  /\ step = "getBuild" =>
       \A i \in 1..Len(pollLog) : pollLog[i].protectedUrl = ""

\* a response labelled PROTECTED without a url did not end the loop, the
\* next one, labelled RUNNING with a url, did
C11_Witness ==
  /\ Returned
  /\ pollLog = << [state |-> "PROTECTED", protectedUrl |-> ""],
                  [state |-> "RUNNING", protectedUrl |-> "u1"] >>

\* C12 as stated: a poll response labelled FAILED or ERROR, at any position,
\* makes pollUntilProtected fail at once: it is the last response polled and
\* the loop threw on it.
C12_FailureLabelFatal ==
  \A i \in 1..Len(pollLog) :
    pollLog[i].state \in FailureLabels => i = Len(pollLog) /\ PollFailed

\* C12, amended: a poll response labelled FAILED or ERROR that carries no
\* protectedUrl makes pollUntilProtected fail at once, with no further poll
\* and no suspension after it; one that carries a protectedUrl makes it
\* return that response as the protected build.
C12_FailureLabelFatalUnlessUrl ==
  \A i \in 1..Len(pollLog) :
    pollLog[i].state \in FailureLabels =>
      /\ i = Len(pollLog)
      /\ PollCount = i
      /\ Len(sleeps) = i - 1
      /\ IF pollLog[i].protectedUrl = ""
           THEN PollFailed
           ELSE Returned /\ build = pollLog[i]

\* the second response is labelled ERROR, has no url, and the loop threw
C12_Witness ==
  /\ PollFailed
  /\ Len(pollLog) = 2
  /\ pollLog[2] = [state |-> "ERROR", protectedUrl |-> ""]

\* a response labelled FAILED with a url was returned as the protected build
C12_WitnessLabelWithUrl ==
  /\ Returned
  /\ build = [state |-> "FAILED", protectedUrl |-> "u1"]

\* C13: when pollUntilProtected returns on its k-th response it has sent
\* exactly k polls and slept exactly k-1 times; every sleep it asks for is of
\* the configured interval, and it asks for one after each poll that neither
\* returned nor threw.
C13_ExactPollCount ==
  /\ Returned =>
       /\ PollCount = Len(pollLog)
       /\ Len(sleeps) = Len(pollLog) - 1
  /\ \A i \in 1..Len(sleeps) : sleeps[i] = pollIntervalSeconds * 1000
  /\ step = "getBuild" /\ pc = "sleep" => Len(sleeps) = PollCount

\* returned on the second response, after two polls and one sleep
C13_Witness ==
  /\ Returned
  /\ Len(pollLog) = 2
  /\ PollCount = 2
  /\ sleeps = <<pollIntervalSeconds * 1000>>

\* pollUntilProtected is over: it returned or it threw
PollOver == Returned \/ (step = "getBuild" /\ pc = "failed")

\* C14: polling is bounded.  Polls are at least one interval apart and each
\* is sent before the deadline; the loop throws the timeout error only with
\* the deadline reached and after responses that all carried neither a url
\* nor a failure label; a loop that was entered is over in the end, and an
\* invocation whose loop returned never carries the loop's errors.
C14_BoundedPolling ==
  /\ [](PollCount > 0 =>
          (PollCount - 1) * STATUS_POLL_TIME(pollIntervalSeconds)
            < MAX_POLL_TIME(timeoutMinutes))
  /\ [](TimedOut =>
          /\ now - start >= MAX_POLL_TIME(timeoutMinutes)
          /\ \A i \in 1..Len(pollLog) : pollVerdict(pollLog[i]) = "sleep")
  /\ [](Returned =>
          err.text \notin {"zShield build failed",
                           "Timed out waiting for protected artifact"})
  /\ ((step = "getBuild") ~> PollOver)

\* two RUNNING responses, then the deadline: the loop threw the timeout
C14_Witness ==
  /\ TimedOut
  /\ timeoutMinutes = 1
  /\ pollLog = << [state |-> "RUNNING", protectedUrl |-> ""],
                  [state |-> "RUNNING", protectedUrl |-> ""] >>

\* the loop test of pollUntilProtected has just let a poll through
PollGoesOut == step = "getBuild" /\ pc = "auth"

\* C15 as stated: the window runs from the start of the submission, the
\* time spent in submitProtect counted: no poll goes out once
\* timeout_minutes have passed since submitProtect was called.
C15_WindowFromSubmission ==
  PollGoesOut => now - submitAt < MAX_POLL_TIME(timeoutMinutes)

\* C15, amended: the window runs from the entry of pollUntilProtected, the
\* moment submitProtect has returned: a poll goes out only within
\* timeout_minutes of that moment and the timeout is thrown only after them;
\* the time spent in submitProtect is not counted.
C15_WindowFromPollStart ==
  /\ step \in {"getBuild", "getProtectedLink", "downloadFromSignedUrl"} =>
       start = submittedAt
  /\ PollGoesOut => now - submittedAt < MAX_POLL_TIME(timeoutMinutes)
  /\ TimedOut => now - submittedAt >= MAX_POLL_TIME(timeoutMinutes)

\* submitProtect took time, and a poll goes out although timeout_minutes
\* have passed since it was called
C15_Witness ==
  /\ PollGoesOut
  /\ submittedAt > submitAt
  /\ now - submitAt >= MAX_POLL_TIME(timeoutMinutes)

\* C16 as stated: a run that ends in a fatal condition has set neither
\* the build_id nor the protected_file output.
C16_NoPartialOutputs == pc = "failed" => outputs = NoOutputs

\* C16, amended: a run that ends in a fatal condition has not set the
\* protected_file output; it has set the build_id output exactly when it
\* failed after submitProtect returned a build id (while polling, fetching
\* the descriptor or downloading), and then to that id.  A run that ends
\* well has set both.
C16_OnlyBuildIdOnFailure ==
  /\ pc = "failed" =>
       /\ outputs.protected_file = ""
       /\ outputs.build_id = buildId
       /\ buildId # "" <=>
            step \in {"getBuild", "getProtectedLink", "downloadFromSignedUrl"}
  /\ pc = "done" =>
       /\ outputs.build_id = buildId /\ buildId # ""
       /\ outputs.protected_file # ""

\* the poll loop timed out and build_id is set
C16_Witness ==
  /\ TimedOut
  /\ outputs = [build_id |-> "b1", protected_file |-> ""]

\* the place of a step in run(); 0 for the credential calls that precede
\* the requests of several steps
Rank(c) ==
  CASE c = "GET teams"              -> 1
    [] c = "GET groups"             -> 2
    [] c = "buildProtectionRequest" -> 3
    [] c = "POST protect"           -> 4
    [] c = "GET build"              -> 5
    [] c = "GET protected"          -> 6
    [] c = "GET signedUrl"          -> 7
    [] OTHER                        -> 0

\* C17: the steps of a run come in the order authenticate, team listing,
\* group listing, request building, submit, polls, descriptor, download: in
\* the log of calls no step comes before an earlier one, only polls repeat,
\* the first entry is the credential call, the request awaited is the last
\* one logged, and a step is started only with the result of the step before
\* it at hand.
C17_StrictOrder ==
  /\ \A i, j \in 1..Len(calls) :
       (i < j /\ Rank(calls[i]) > 0 /\ Rank(calls[j]) > 0) =>
         \/ Rank(calls[i]) < Rank(calls[j])
         \/ Rank(calls[i]) = 5 /\ Rank(calls[j]) = 5
  /\ \A i \in 1..Len(calls) :
       /\ Rank(calls[i]) > 1 =>
            \E j \in 1..(i - 1) : Rank(calls[j]) \in {Rank(calls[i]) - 1,
                                                     Rank(calls[i])}
  /\ calls # <<>> => calls[1] = "loginHttpRequest"
  /\ pc \in {"login", "request"} => calls[Len(calls)] \in Requests
  /\ \A i \in 1..Len(calls) :
       /\ calls[i] = "GET groups" => teamId \in TeamIds
       /\ calls[i] = "buildProtectionRequest" => groupId \in GroupIds
       /\ calls[i] = "POST protect" => req # <<>>
       /\ calls[i] = "GET build" => buildId # ""
       /\ calls[i] = "GET protected" => build.protectedUrl # ""
       /\ calls[i] = "GET signedUrl" => link.url # ""

\* a whole run with two polls, every step in the log
C17_Witness ==
  /\ pc = "done"
  /\ PollCount = 2
  /\ \A r \in 1..7 : \E i \in 1..Len(calls) : Rank(calls[i]) = r

\* c is in the log of calls
Called(c) == \E i \in 1..Len(calls) : calls[i] = c

\* C18: the descriptor is fetched by a call of its own, sent only after
\* pollUntilProtected has returned; the download goes to the url of the
\* descriptor, not to the protectedUrl of the poll response; a descriptor
\* without a url fails the run with no download request sent.
C18_DescriptorDecidesDownload ==
  /\ Called("GET protected") => Returned /\ build.protectedUrl # ""
  /\ Called("GET signedUrl") =>
       /\ Called("GET protected")
       /\ link.url # ""
       /\ signedUrl = link.url
  /\ (pc = "failed" /\ err.text = "Unexpected /protected response") =>
       /\ step = "getProtectedLink"
       /\ ~Called("GET signedUrl")
       /\ signedUrl = ""

\* the download request went to the descriptor's url, which is not the url
\* the poll response carried
C18_Witness ==
  /\ Called("GET signedUrl")
  /\ signedUrl = "u2"
  /\ build.protectedUrl = "u1"

\* the descriptor came without a url and the run failed before any download
C18_WitnessNoUrl ==
  /\ pc = "failed" /\ err.text = "Unexpected /protected response"
  /\ ~Called("GET signedUrl")

\* how often c is in the log of calls
Times(c) == Cardinality({i \in 1..Len(calls) : calls[i] = c})

\* C19: no request is retried.  Once a request has been rejected the run has
\* failed and the rejected request is the last call it made; the requests
\* other than the poll and the login are sent at most once in a run.
C19_NoRetry ==
  /\ failedCall # "" =>
       /\ pc = "failed"
       /\ err = Error("request failed", <<>>)
       /\ failedCall \in Requests
       /\ calls[Len(calls)] = failedCall
  /\ \A c \in Requests \ {"GET build", "POST login"} : Times(c) <= 1

\* the second poll was rejected: the run failed after exactly two polls
C19_Witness ==
  /\ failedCall = "GET build"
  /\ pc = "failed"
  /\ PollCount = 2

\* the requests of the Resolver, of the Orchestrator and of the descriptor
\* fetch
BearerRequests ==
  {"GET teams", "GET groups", "POST protect", "GET build", "GET protected"}

\* the call at place i of the log comes right after a loginHttpRequest call
\* (with the login request that call made, when it made one)
AfterCredential(i) ==
  \/ i > 1 /\ calls[i - 1] = "loginHttpRequest"
  \/ i > 2 /\ calls[i - 1] = "POST login" /\ calls[i - 2] = "loginHttpRequest"

\* C20 as stated: every request of the Resolver, the Orchestrator and the
\* Fetcher, the download included, comes right after a loginHttpRequest call
\* and carries the token that call returned.
C20_EveryCallWithCredential ==
  /\ \A i \in 1..Len(calls) :
       calls[i] \in BearerRequests \cup {"GET signedUrl"} => AfterCredential(i)
  /\ pc = "request" =>
       /\ authRet.has
       /\ sent = authRet.accessToken

\* C20, amended: every request of the Resolver and the Orchestrator and the
\* Fetcher's descriptor request comes right after a loginHttpRequest call and
\* carries the token that call returned, which is the cached one; the
\* download from the signed url comes right after the descriptor request,
\* with no credential call and no token.
C20_BearerCallsWithCredential ==
  /\ \A i \in 1..Len(calls) :
       /\ calls[i] \in BearerRequests => AfterCredential(i)
       /\ calls[i] = "GET signedUrl" => i > 1 /\ calls[i - 1] = "GET protected"
  /\ (pc = "request" /\ step # "downloadFromSignedUrl") =>
       /\ authRet.has
       /\ authRet = loginResponse
       /\ sent = authRet.accessToken
  /\ (pc = "request" /\ step = "downloadFromSignedUrl") => sent = <<>>

\* a poll in flight with a token that the credential call took from the cache
C20_Witness ==
  /\ pc = "request" /\ step = "getBuild"
  /\ authLogins = 0
  /\ sent = loginResponse.accessToken
  /\ PollCount = 2

\* the download request in flight, with no token
C20_WitnessDownload ==
  /\ pc = "request" /\ step = "downloadFromSignedUrl"
  /\ sent = <<>>

(***************************************************************************)
(* Properties of downloadFromSignedUrl (SpecDownload)                       *)
(***************************************************************************)
\* the download request has been answered
Answered == resp # NoResp

Status2xx == resp.status >= 200 /\ resp.status <= 299

\* the content type declared is a markup type, HTML in either case or XML
DeclaresMarkup ==
  resp.ct # <<>> /\ resp.ct[1] \in {"text/html", "TEXT/HTML", "application/xml"}

\* the header value holds text/html as the code looks for it
HoldsTextHtml == \E i \in 1..Len(resp.ct) : resp.ct[i] = "text/html"

\* the body has at least four bytes and starts with "PK"
ZipBody == Len(resp.data) >= 4 /\ resp.data[1] = 80 /\ resp.data[2] = 75

\* downloadFromSignedUrl threw: nothing on disk, no protected_file
Rejected ==
  /\ pc = "failed"
  /\ outFile = <<>>
  /\ outputs.protected_file = ""

\* C21 as stated: a 2xx response that declares a markup content type, HTML
\* or XML, is rejected whatever its body.
C21_MarkupRejected == (Answered /\ Status2xx /\ DeclaresMarkup) => Rejected

\* C21, amended: a 2xx response whose content-type value holds the lower-case
\* text text/html is rejected with the HTML error whatever its body; one that
\* declares XML, or HTML in capitals, is judged by its body alone.
C21_TextHtmlRejected ==
  /\ (Answered /\ Status2xx /\ HoldsTextHtml) =>
       Rejected /\ err.text = "Signed URL returned HTML (not APK)"
  /\ (Answered /\ Status2xx /\ DeclaresMarkup /\ ~HoldsTextHtml) =>
       IF ZipBody THEN pc = "done" /\ outFile = resp.data
                  ELSE Rejected /\ err.text = "Downloaded file is not APK/ZIP"

\* status 200, text/html with a charset, a zip header as body: rejected
C21_Witness ==
  /\ resp = [status |-> 200, ct |-> <<"text/html", "; charset=utf-8">>,
             data |-> <<80, 75, 3, 4>>]
  /\ Rejected

\* status 200, application/xml, a zip header as body: accepted
C21_WitnessXml ==
  /\ resp = [status |-> 200, ct |-> <<"application/xml">>,
             data |-> <<80, 75, 3, 4>>]
  /\ pc = "done"

\* C22 as stated: the download succeeds if and only if the status is 2xx,
\* the content type is not markup, the body has at least four bytes and
\* starts with 0x50 0x4B.
C22_AcceptedIffNotMarkup ==
  Answered => (pc = "done" <=> (Status2xx /\ ~DeclaresMarkup /\ ZipBody))

\* C22, amended: the download succeeds if and only if the status is 2xx, the
\* content-type value does not hold text/html, the body has at least four
\* bytes and starts with 0x50 0x4B; it then writes the body and names the
\* output path.  A body starting 0x50 0x4B of fewer than four bytes fails,
\* and a body starting 0x3C 0x68 fails at any size.
C22_AcceptedIff ==
  Answered =>
    /\ pc = "done" <=> (Status2xx /\ ~HoldsTextHtml /\ ZipBody)
    /\ pc = "done" => outFile = resp.data /\ outputs.protected_file # ""
    /\ pc # "done" => Rejected
    /\ Len(resp.data) < 4 => Rejected
    /\ (Len(resp.data) >= 2 /\ resp.data[1] = 60 /\ resp.data[2] = 104) =>
         Rejected

\* a body of exactly four bytes starting PK, status 299, no content type:
\* accepted
C22_Witness ==
  /\ resp = [status |-> 299, ct |-> <<>>, data |-> <<80, 75, 3, 4>>]
  /\ pc = "done"
  /\ outFile = <<80, 75, 3, 4>>

\* a body of three bytes starting PK, status 200: rejected
C22_WitnessShort ==
  /\ resp.status = 200 /\ resp.data = <<80, 75, 3>> /\ ~HoldsTextHtml
  /\ Rejected

\* C27: when a check of downloadFromSignedUrl fails (status, content type,
\* size, magic bytes) nothing is written to the output path and
\* protected_file is not set; the output path is written, and the output
\* set to it, only with a response that passed every check.
C27_FailClosed ==
  /\ (Answered /\ ~(Status2xx /\ ~HoldsTextHtml /\ ZipBody)) =>
       /\ pc = "failed"
       /\ outFile = <<>>
       /\ outputs.protected_file = ""
  /\ (outFile # <<>> \/ outputs.protected_file # "") =>
       /\ Answered /\ Status2xx /\ ~HoldsTextHtml /\ ZipBody
       /\ outFile = resp.data
       /\ outputs.protected_file = outPath(outputFileInput, inputFile)

\* four bytes with a wrong second magic byte, status 200: nothing written
C27_Witness ==
  /\ resp = [status |-> 200, ct |-> <<"application/octet-stream">>,
             data |-> <<80, 76, 3, 4>>]
  /\ pc = "failed"
  /\ err.text = "Downloaded file is not APK/ZIP"
  /\ outFile = <<>>
  /\ outputs.protected_file = ""

(***************************************************************************)
(* Properties of a whole run with the default interval (SpecScenario)       *)
(***************************************************************************)
\* the log without the credential calls
RequestsOf(log) ==
  LET Test(c) == c \notin {"loginHttpRequest", "POST login"}
  IN SelectSeq(log, Test)

\* the run ended well after polls answered RUNNING, RUNNING and then a
\* response with a url, with b1 as the build id
ThreePollRun ==
  /\ pc = "done"
  /\ buildId = "b1"
  /\ Len(pollLog) = 3
  /\ pollLog[1] = [state |-> "RUNNING", protectedUrl |-> ""]
  /\ pollLog[2] = [state |-> "RUNNING", protectedUrl |-> ""]
  /\ pollLog[3].protectedUrl # ""

\* the requests of such a run, in order
ThreePollRequests ==
  <<"GET teams", "GET groups", "buildProtectionRequest", "POST protect",
    "GET build", "GET build", "GET build", "GET protected", "GET signedUrl">>

\* the calls of such a run when the first token lasts
ThreePollCalls ==
  <<"loginHttpRequest", "POST login", "GET teams",
    "loginHttpRequest", "GET groups", "buildProtectionRequest",
    "loginHttpRequest", "POST protect",
    "loginHttpRequest", "GET build",
    "loginHttpRequest", "GET build",
    "loginHttpRequest", "GET build",
    "loginHttpRequest", "GET protected", "GET signedUrl">>

\* C23 as stated: such a run makes one login, one team listing, one group
\* listing, one submit, three polls, one descriptor fetch and one download
\* in that order, and ends with build_id = b1 and protected_file =
\* <name>_protected.apk.
C23_ScenarioAsStated ==
  ThreePollRun =>
    /\ calls = ThreePollCalls
    /\ outputs = [build_id |-> "b1",
                  protected_file |-> inputFile.base \o "_protected.apk"]

\* C23, amended: such a run makes one team listing, one group listing, one
\* submit, three polls, one descriptor fetch and one download in that order,
\* a credential call before each but the download, with the login first and
\* no other login when the first token lasts; it ends with build_id = b1 and
\* protected_file = <name>_zshield_protected.apk.
C23_Scenario ==
  ThreePollRun =>
    /\ RequestsOf(calls) = ThreePollRequests
    /\ Times("loginHttpRequest") = 7
    /\ calls[1] = "loginHttpRequest" /\ calls[2] = "POST login"
    /\ Times("POST login") = 1 => calls = ThreePollCalls
    /\ sleeps = <<15000, 15000>>
    /\ outputs = [build_id |-> "b1",
                  protected_file |-> inputFile.base \o "_zshield_protected.apk"]

\* the run of the scenario with one login, for app-release.aab
C23_Witness ==
  /\ ThreePollRun
  /\ calls = ThreePollCalls
  /\ inputFile.base = "app-release"
  /\ outputs.protected_file = "app-release_zshield_protected.apk"

(***************************************************************************)
(* More properties of the credential cache (SpecAuth)                       *)
(***************************************************************************)
\* C24 as stated: whenever loginHttpRequest returns, from the cache or after
\* a login, the credential it returns is unexpired at that moment.
C24_ReturnedUnexpired ==
  [][(pc # "returned" /\ pc' = "returned") =>
       HasUnexpiredToken(authRet', now')]_vars

\* C24, amended: a credential that loginHttpRequest returns from the cache is
\* unexpired at the moment it is returned; a credential just obtained by a
\* login is the body received, with a token, returned and cached as it is.
C24_CachedReturnedUnexpired ==
  [][/\ (pc = "call" /\ pc' = "returned") =>
          /\ HasUnexpiredToken(authRet', now')
          /\ authRet' = loginResponse
          /\ authLogins' = 0
     /\ (pc = "login" /\ pc' = "returned") =>
          /\ authRet' = loginResponse'
          /\ authRet'.has /\ authRet'.accessToken # <<>>
          /\ authLogins' = 1]_vars

\* a login has just returned a credential whose token had expired before the
\* call was made
C24_Witness ==
  /\ pc = "returned"
  /\ authLogins = 1
  /\ authRet = loginResponse
  /\ Len(authRet.accessToken) >= 2
  /\ authRet.accessToken[2].hasExp
  /\ authRet.accessToken[2].exp * 1000 <= authNow
  /\ authNow > 0

\* a credential returned from the cache a second after the login, unexpired
C24_WitnessCached ==
  /\ pc = "returned"
  /\ authLogins = 0
  /\ authNow >= 1000
  /\ now = authNow
  /\ HasUnexpiredToken(authRet, now)

(***************************************************************************)
(* More properties of run() (SpecRun)                                       *)
(***************************************************************************)
\* the limit of pollUntilProtected has passed
PastDeadline == now - start >= MAX_POLL_TIME(timeoutMinutes)

\* C25: the deadline is looked at only before a poll goes out.  A response
\* with a url makes pollUntilProtected return although the deadline has
\* passed when it arrives, and the timeout is thrown only after a sleep or
\* at entry, never after a response with a url.
C25_DeadlineOnlyBeforePoll ==
  /\ (pollLog # <<>> /\ pollLog[Len(pollLog)].protectedUrl # "") => Returned
  /\ TimedOut =>
       /\ Len(sleeps) = Len(pollLog)
       /\ \A i \in 1..Len(pollLog) : pollLog[i].protectedUrl = ""
  /\ (step = "getBuild" /\ pc = "request") =>
       authNow - start < MAX_POLL_TIME(timeoutMinutes)

\* the response with the url has just arrived, after the deadline
C25_Witness ==
  /\ step = "getProtectedLink" /\ pc = "auth"
  /\ PastDeadline
  /\ timeoutMinutes > 0
  /\ build.protectedUrl = "u1"

\* C26: with timeout_minutes above zero the timeout is thrown only after at
\* least one poll; with timeout_minutes zero or below it is thrown with no
\* poll sent, the job submitted and build_id set.
C26_PollBeforeTimeout ==
  /\ (TimedOut /\ timeoutMinutes > 0) => PollCount >= 1
  /\ (timeoutMinutes <= 0 /\ step = "getBuild") => PollCount = 0
  /\ (timeoutMinutes <= 0 /\ Called("POST protect") /\ buildId # ""
        /\ pc \notin {"while", "request"}) =>
       /\ TimedOut
       /\ outputs.build_id = buildId
  /\ (timeoutMinutes <= 0) => ~Returned /\ pc # "done"

\* timeout_minutes is 0: the job was submitted and the run timed out with no
\* poll
C26_Witness ==
  /\ TimedOut
  /\ timeoutMinutes = 0
  /\ PollCount = 0
  /\ Called("POST protect")
  /\ buildId = "b1"

\* timeout_minutes is 1: the run timed out after two polls
C26_WitnessPolled ==
  /\ TimedOut
  /\ timeoutMinutes = 1
  /\ PollCount = 2

(***************************************************************************)
(* More properties of the resolver (SpecResolve)                            *)
(***************************************************************************)
\* the orders in which a listing of n groups can arrive
Permutations(n) ==
  {f \in [1..n -> 1..n] : \A i, j \in 1..n : i # j => f[i] # f[j]}

\* the listing that arrived, in the order f
Reordered(f) == [i \in 1..Len(groups) |-> groups[f[i]]]

\* resolveGroupId has run on the listing
GroupsSearched ==
  /\ pc \in {"resolved", "failed"}
  /\ err.text \notin {"Team not found. Available teams",
                      "teams request failed", "groups request failed"}

\* C28: the outcome of resolveGroupId does not depend on the order of the
\* listing: on every reordering of the listing that arrived it returns the
\* same id, or fails with the same error, as it did.
C28_OrderIndependent ==
  GroupsSearched =>
    \A f \in Permutations(Len(groups)) :
      LET r == resolveGroupId(Reordered(f), groupName, teamId)
      IN /\ r.ok = (pc = "resolved")
         /\ r.ok => r.id = groupId
         /\ ~r.ok => r.err.text = err.text

\* a global group ahead of the team's group of the same name, and the team's
\* group was returned
C28_Witness ==
  /\ pc = "resolved"
  /\ \E i, j \in 1..Len(groups) :
       /\ i < j
       /\ groups[i].name = groupName /\ groups[i].team = <<>>
       /\ groups[j].name = groupName /\ groups[j].team = <<teamId>>
       /\ groupId = groups[j].id

\* a group of another team ahead of a global group of the same name, and a
\* failure for two global groups
C28_WitnessFailed ==
  /\ pc = "failed"
  /\ err.text = "Multiple global groups found"
  /\ Len(groups) = 3
  /\ groups[1].team # <<>>
  /\ groups[1].name = groupName

====
